---- MODULE Spec2Model ----
(***************************************************************************)
(* Model of app.py, the salary dashboard: the cached loader               *)
(* carregar_dados (schema validation, type coercion, text sanitization),  *)
(* the sidebar filter selection, the filter, the KPIs, the charts' input  *)
(* tables and the detail table, as one render pass of the script after    *)
(* another.                                                                *)
(*                                                                         *)
(* Text is a sequence of one-character strings.  A float is an exact      *)
(* rational [nan, num, den] (rounding is not modelled); NaN is the        *)
(* missing value of pandas.                                                *)
(***************************************************************************)
EXTENDS Integers, Sequences, FiniteSets, TLC

\* ---------------------------------------------------------------- bounds
MaxRows == 2
MaxFetches == 2
MaxHead == 1
MaxTail == 2

\* ----------------------------------------------------- program constants
LimiteTexto == 100
TopN == 10
MAX_LINHAS_TABELA == 1000

VARIABLES
    csv_remoto,   \* the content behind DATASET_URL
    cache,        \* st.cache_data entry of carregar_dados
    fetches,      \* number of pd.read_csv(DATASET_URL) calls so far
    widgets,      \* session state of the four sidebar multiselects
    pc,           \* position of the script in the current render pass
    df,           \* app.py:76
    erro,         \* what st.error / st.exception showed in this pass
    sel,          \* anos_sel, senioridades_sel, contratos_sel, tamanhos_sel
    df_filtrado,  \* app.py:104
    kpis,         \* salario_medio, salario_max, total, cargo_freq
    graficos,     \* top_cargos, histogram input, remoto, media_pais
    tabela,       \* app.py:218
    entrada,      \* a content handed to the loader on its own
    saida         \* what the loader returned for it

vars == <<csv_remoto, cache, fetches, widgets, pc, df, erro, sel,
          df_filtrado, kpis, graficos, tabela, entrada, saida>>

\* ------------------------------------------------------------------ text
Min(a, b) == IF a < b THEN a ELSE b

\* the characters used, in code point order
Alfabeto == <<"\t", " ", "-", "<", ">", "A", "B", "D", "E", "F", "L", "M",
              "N", "P", "R", "S", "T", "U", "a", "c", "e", "i", "n", "s",
              "t", "x">>

Ord(c) == CHOOSE i \in DOMAIN Alfabeto : Alfabeto[i] = c

RECURSIVE StrMenor(_, _)
\* Python's < on str
StrMenor(a, b) ==
    IF b = <<>> THEN FALSE
    ELSE IF a = <<>> THEN TRUE
    ELSE IF Head(a) = Head(b) THEN StrMenor(Tail(a), Tail(b))
    ELSE Ord(Head(a)) < Ord(Head(b))

EhEspaco(c) == c \in {" ", "\t"}

\* .str.slice(0, fim)
slice(s, fim) == SubSeq(s, 1, Min(fim, Len(s)))

\* .str.replace(r"[<>]", "", regex=True)
replace(s) == SelectSeq(s, LAMBDA c : c \notin {"<", ">"})

RECURSIVE lstrip(_)
lstrip(s) == IF s # <<>> /\ EhEspaco(Head(s)) THEN lstrip(Tail(s)) ELSE s

RECURSIVE rstrip(_)
rstrip(s) == IF s # <<>> /\ EhEspaco(s[Len(s)])
             THEN rstrip(SubSeq(s, 1, Len(s) - 1)) ELSE s

\* .str.strip()
strip(s) == rstrip(lstrip(s))

\* a plausible slip: the trim is done before the characters are removed
SanitizarTrocado(s) == replace(strip(slice(s, LimiteTexto)))

\* app.py:60-66 on one value that astype(str) has made a str
Sanitizar(s) == strip(replace(slice(s, LimiteTexto)))

\* --------------------------------------------------------------- numbers
NaN == [nan |-> TRUE, num |-> 0, den |-> 1]

Abs(x) == IF x < 0 THEN -x ELSE x

RECURSIVE Mdc(_, _)
Mdc(a, b) == IF b = 0 THEN a ELSE Mdc(b, a % b)

\* the float n/d (d > 0), in lowest terms
Frac(n, d) == LET g == Mdc(Abs(n), d)
              IN  [nan |-> FALSE, num |-> n \div g, den |-> d \div g]

\* a < b on floats; false when either is NaN
NumMenor(a, b) == ~a.nan /\ ~b.nan /\ a.num * b.den < b.num * a.den

\* ------------------------------------------------- the remote CSV, parsed
\* A cell as pd.read_csv sees it: an integer literal, a decimal literal (v
\* in tenths), an empty cell, or text that is no number.
Inteiro(v) == [k |-> "int", v |-> v, s |-> <<>>]
Decimal(t) == [k |-> "float", v |-> t, s |-> <<>>]
Faltante == [k |-> "nan", v |-> 0, s |-> <<>>]
Texto(s) == [k |-> "text", v |-> 0, s |-> s]

COLUNAS_ESPERADAS ==
    [ano |-> "int64", senioridade |-> "object", contrato |-> "object",
     tamanho_empresa |-> "object", cargo |-> "object", usd |-> "float64",
     remoto |-> "object", residencia_iso3 |-> "object"]

\* the iteration order of the dict
OrdemColunas == <<"ano", "senioridade", "contrato", "tamanho_empresa",
                  "cargo", "usd", "remoto", "residencia_iso3">>

colunas_texto == {"senioridade", "contrato", "tamanho_empresa", "cargo",
                  "remoto", "residencia_iso3"}

Celulas(t, col) == {t.linhas[i][col] : i \in DOMAIN t.linhas}

\* df[coluna].astype(tipo, errors="raise") returns: an int64 target refuses
\* NaN and text but takes any finite float; a float64 target refuses text;
\* an object target takes everything
astype_aceita(t, col) ==
    LET cs == Celulas(t, col)
        tipo == COLUNAS_ESPERADAS[col]
    IN  CASE tipo = "int64" -> \A c \in cs : c.k \in {"int", "float"}
          [] tipo = "float64" -> \A c \in cs : c.k # "text"
          [] OTHER -> TRUE

\* float -> int64 of numpy: toward zero, silently
Truncar(t) == IF t >= 0 THEN t \div 10 ELSE -((-t) \div 10)

astype_int64(c) == IF c.k = "float" THEN Truncar(c.v) ELSE c.v

astype_float64(c) ==
    CASE c.k = "int" -> Frac(c.v, 1)
      [] c.k = "float" -> Frac(c.v, 10)
      [] OTHER -> NaN

\* .astype(str) on an object column: text as it is, NaN as "nan" (pandas
\* 2.x; the cells of a text column are text or empty)
astype_str(c) == IF c.k = "text" THEN c.s ELSE <<"n", "a", "n">>

\* one row of the table carregar_dados returns
LinhaCarregada(r) ==
    [col \in DOMAIN COLUNAS_ESPERADAS |->
        CASE col = "ano" -> astype_int64(r[col])
          [] col = "usd" -> astype_float64(r[col])
          [] OTHER -> Sanitizar(astype_str(r[col]))]

SemErro == [etapa |-> "nenhuma", faltantes |-> {}, coluna |-> ""]

Levantar(etapa, faltantes, coluna) ==
    [etapa |-> etapa, faltantes |-> faltantes, coluna |-> coluna]

\* a plausible slip: every expected column is reported, not the missing ones
colunas_faltantes_todas(t) ==
    IF DOMAIN COLUNAS_ESPERADAS \subseteq t.colunas THEN {}
    ELSE DOMAIN COLUNAS_ESPERADAS

\* set(COLUNAS_ESPERADAS) - set(df.columns)
colunas_faltantes(t) == DOMAIN COLUNAS_ESPERADAS \ t.colunas

\* the first column of the coercion loop that raises
PrimeiraRecusada(t) ==
    LET i == CHOOSE i \in DOMAIN OrdemColunas :
                 /\ ~astype_aceita(t, OrdemColunas[i])
                 /\ \A j \in 1..(i - 1) : astype_aceita(t, OrdemColunas[j])
    IN  OrdemColunas[i]

\* a plausible slip: no st.stop(), the handler falls through with a table
ExcecaoSemStop(e) == [ok |-> TRUE, linhas |-> <<>>, erro |-> e]

\* the except block: st.error, st.exception, st.stop
Excecao(e) == [ok |-> FALSE, linhas |-> <<>>, erro |-> e]

\* the body of carregar_dados on a cache miss
carregar_dados(rede_ok, conteudo) ==
    IF ~rede_ok THEN Excecao(Levantar("fetch", {}, ""))
    ELSE IF ~conteudo.bem_formado THEN Excecao(Levantar("parse", {}, ""))
    ELSE IF colunas_faltantes(conteudo) # {}
         THEN Excecao(Levantar("esquema", colunas_faltantes(conteudo), ""))
    ELSE IF \E col \in DOMAIN COLUNAS_ESPERADAS : ~astype_aceita(conteudo, col)
         THEN Excecao(Levantar("coercao", {}, PrimeiraRecusada(conteudo)))
    ELSE [ok |-> TRUE,
          linhas |-> [i \in DOMAIN conteudo.linhas |->
                          LinhaCarregada(conteudo.linhas[i])],
          erro |-> SemErro]

\* ------------------------------------------------------- pandas helpers
\* the keys of a groupby: the distinct values, sorted
ChavesOrdenadas(S) ==
    [k \in 1..Cardinality(S) |->
        CHOOSE x \in S : Cardinality({y \in S : StrMenor(y, x)}) = k - 1]

\* the distinct values in order of first appearance
PrimeirasOcorrencias(s) ==
    LET idx == {i \in DOMAIN s : \A j \in 1..(i - 1) : s[j] # s[i]}
    IN  [k \in 1..Cardinality(idx) |->
            s[CHOOSE i \in idx : Cardinality({j \in idx : j < i}) = k - 1]]

Coluna(v, col) == [i \in DOMAIN v |-> v[i][col]]

\* df.head(n)
head(v, n) == SubSeq(v, 1, Min(n, Len(v)))

\* df.empty
empty(v) == Len(v) = 0

RECURSIVE Soma(_)
Soma(xs) == IF xs = <<>> THEN Frac(0, 1)
            ELSE LET r == Soma(Tail(xs))
                     x == Head(xs)
                 IN  Frac(x.num * r.den + r.num * x.den, x.den * r.den)

\* Series.mean(): NaN is skipped; NaN when nothing is left
mean(xs) ==
    LET ys == SelectSeq(xs, LAMBDA x : ~x.nan)
        t == Soma(ys)
    IN  IF ys = <<>> THEN NaN ELSE Frac(t.num, t.den * Len(ys))

\* Series.max(): NaN is skipped; NaN when nothing is left
max(xs) ==
    LET S == {xs[i] : i \in {j \in DOMAIN xs : ~xs[j].nan}}
    IN  IF S = {} THEN NaN
        ELSE CHOOSE x \in S : \A y \in S : ~NumMenor(x, y)

\* Series.mode().iloc[0]: the least of the most frequent values
mode_primeiro(xs) ==
    LET n(x) == Cardinality({i \in DOMAIN xs : xs[i] = x})
        S == {xs[i] : i \in DOMAIN xs}
        M == {x \in S : \A y \in S : n(y) <= n(x)}
    IN  CHOOSE x \in M : \A y \in M : ~StrMenor(y, x)

\* groupby(chave)["usd"].mean(): one row per key, keys sorted
MediaPorGrupo(v, chave) ==
    LET ks == ChavesOrdenadas({v[i][chave] : i \in DOMAIN v})
    IN  [k \in DOMAIN ks |->
            [chave |-> ks[k],
             usd |-> mean(Coluna(SelectSeq(v, LAMBDA r : r[chave] = ks[k]),
                                 "usd"))]]

\* ascending by usd, NaN last
Crescente(a, b) == NumMenor(a.usd, b.usd) \/ (~a.usd.nan /\ b.usd.nan)

\* descending by usd, NaN last
Decrescente(a, b) == NumMenor(b.usd, a.usd) \/ (~a.usd.nan /\ b.usd.nan)

Antes(a, b, ordem) ==
    CASE ordem = "crescente" -> Crescente(a, b)
      [] ordem = "decrescente" -> Decrescente(a, b)
      [] OTHER -> a.quantidade > b.quantidade

\* a sort of s under one of the strict orders of Antes; equal rows keep
\* their order (numpy leaves the order of ties open)
Ordenar(s, ordem) ==
    LET pos(i) == 1 + Cardinality({j \in DOMAIN s :
                         \/ Antes(s[j], s[i], ordem)
                         \/ (~Antes(s[i], s[j], ordem) /\ j < i)})
    IN  [k \in DOMAIN s |-> s[CHOOSE i \in DOMAIN s : pos(i) = k]]

\* Series.sort_values(): ascending, NaN last
sort_values(s) == Ordenar(s, "crescente")

\* Series.nlargest(n), keep="first": the whole series sorted descending when
\* n covers it, else the n largest of the values that are not NaN, then the
\* NaN rows, cut to n
nlargest(s, n) ==
    IF n >= Len(s) THEN head(Ordenar(s, "decrescente"), n)
    ELSE LET dropped == SelectSeq(s, LAMBDA r : ~r.usd.nan)
             nan_index == SelectSeq(s, LAMBDA r : r.usd.nan)
         IN  head(head(Ordenar(dropped, "decrescente"), n) \o nan_index, n)

\* ---------------------------------------------------------------- script
Ausente == [def |-> FALSE, linhas |-> <<>>]
Presente(l) == [def |-> TRUE, linhas |-> l]

SemSelecao == [def |-> FALSE, ano |-> {}, senioridade |-> {},
               contrato |-> {}, tamanho_empresa |-> {}]

SemKpis == [def |-> FALSE, salario_medio |-> NaN, salario_max |-> NaN,
            total |-> 0, cargo_freq |-> <<>>]

SemGraficos == [def |-> FALSE, top_cargos |-> Ausente, histograma |-> Ausente,
                remoto |-> Ausente, media_pais |-> Ausente]

DataScientist == <<"D", "a", "t", "a", " ", "S", "c", "i", "e", "n", "t",
                   "i", "s", "t">>

\* the hit test of st.cache_data: an entry stays for the life of the process
EmCacheNunca(c) == FALSE

EmCache(c) == c.def

\* sorted(df[col].unique()), as the set of options of the multiselect
Unicos(d, col) == {d[i][col] : i \in DOMAIN d}

\* a plausible slip: a multiselect without default= starts empty
PadraoSemAno(d) ==
    [def |-> TRUE, ano |-> {}, senioridade |-> Unicos(d, "senioridade"),
     contrato |-> Unicos(d, "contrato"),
     tamanho_empresa |-> Unicos(d, "tamanho_empresa")]

\* default=anos, default=senioridades, default=contratos, default=tamanhos
Padrao(d) ==
    [def |-> TRUE, ano |-> Unicos(d, "ano"),
     senioridade |-> Unicos(d, "senioridade"),
     contrato |-> Unicos(d, "contrato"),
     tamanho_empresa |-> Unicos(d, "tamanho_empresa")]

\* a plausible slip: one of the four masks is left out
PassaFiltroSemTamanho(r, s) ==
    /\ r.ano \in s.ano
    /\ r.senioridade \in s.senioridade
    /\ r.contrato \in s.contrato

\* the conjunction of the four isin masks on one row
PassaFiltro(r, s) ==
    /\ r.ano \in s.ano
    /\ r.senioridade \in s.senioridade
    /\ r.contrato \in s.contrato
    /\ r.tamanho_empresa \in s.tamanho_empresa

\* df[mask]
Filtrar(d, s) == SelectSeq(d, LAMBDA r : PassaFiltro(r, s))

\* the one character of the placeholder of app.py:132, U+2014 (written here
\* in ASCII)
Travessao == "-"

\* a plausible slip: the aggregates of an empty table, unguarded
kpis_vazio_nan ==
    [def |-> TRUE, salario_medio |-> NaN, salario_max |-> NaN, total |-> 0,
     cargo_freq |-> <<Travessao>>]

\* the else branch of the KPIs
kpis_vazio ==
    [def |-> TRUE, salario_medio |-> Frac(0, 1), salario_max |-> Frac(0, 1),
     total |-> 0, cargo_freq |-> <<Travessao>>]

calc_kpis(v) ==
    IF ~empty(v)
    THEN [def |-> TRUE,
          salario_medio |-> mean(Coluna(v, "usd")),
          salario_max |-> max(Coluna(v, "usd")),
          total |-> Len(v),
          cargo_freq |-> mode_primeiro(Coluna(v, "cargo"))]
    ELSE kpis_vazio

calc_top_cargos(v) ==
    IF ~empty(v)
    THEN Presente(sort_values(nlargest(MediaPorGrupo(v, "cargo"), TopN)))
    ELSE Ausente

calc_histograma(v) ==
    IF ~empty(v) THEN Presente(Coluna(v, "usd")) ELSE Ausente

\* value_counts().reset_index(): one row per value, most frequent first
calc_remoto(v) ==
    IF ~empty(v)
    THEN LET xs == Coluna(v, "remoto")
             ks == PrimeirasOcorrencias(xs)
             linhas == [k \in DOMAIN ks |->
                 [tipo_trabalho |-> ks[k],
                  quantidade |-> Cardinality({i \in DOMAIN xs : xs[i] = ks[k]})]]
         IN  Presente(Ordenar(linhas, "quantidade"))
    ELSE Ausente

calc_media_pais(v) ==
    LET df_ds == SelectSeq(v, LAMBDA r : r.cargo = DataScientist)
    IN  IF ~empty(df_ds) THEN Presente(MediaPorGrupo(df_ds, "residencia_iso3"))
        ELSE Ausente

\* ------------------------------------------------- what the URL may hold
LinhaCrua(ano, senioridade, contrato, cargo, usd, remoto, residencia) ==
    [ano |-> ano, senioridade |-> senioridade, contrato |-> contrato,
     tamanho_empresa |-> Texto(<<"M">>), cargo |-> cargo, usd |-> usd,
     remoto |-> remoto, residencia_iso3 |-> residencia]

\* rows the loader accepts
LinhasAceitas ==
    { LinhaCrua(Inteiro(2023), Texto(<<"S", "E">>), Texto(<<"F", "T">>),
                Texto(DataScientist), Inteiro(3), Texto(<<"R">>),
                Texto(<<"B", "R", "A">>)),
      LinhaCrua(Inteiro(2024), Texto(<<" ", "<", "E", "N", ">">>),
                Texto(<<"P", "T">>), Texto(<<"A", "E">>), Decimal(15),
                Texto(<<"P">>), Texto(<<"U", "S", "A">>)),
      LinhaCrua(Decimal(20245), Faltante, Texto(<<"F", "T">>),
                Texto(DataScientist), Faltante, Texto(<<"R">>),
                Texto(<<"U", "S", "A">>)),
      LinhaCrua(Inteiro(2023), Texto(<<"S", "E">>), Texto(<<"P", "T">>),
                Texto(<<"<", "B", ">">>), Faltante, Faltante,
                Texto(<<"B", "R", "A">>)) }

\* rows with a cell astype refuses
LinhasRecusadas ==
    { LinhaCrua(Faltante, Texto(<<"S", "E">>), Texto(<<"F", "T">>),
                Texto(DataScientist), Inteiro(3), Texto(<<"R">>),
                Texto(<<"B", "R", "A">>)),
      LinhaCrua(Inteiro(2024), Texto(<<"E", "N">>), Texto(<<"F", "T">>),
                Texto(<<"A", "E">>), Texto(<<"x">>), Texto(<<"R">>),
                Texto(<<"U", "S", "A">>)),
      LinhaCrua(Texto(<<"x">>), Texto(<<"E", "N">>), Texto(<<"P", "T">>),
                Texto(<<"A", "E">>), Texto(<<"x">>), Texto(<<"P">>),
                Texto(<<"U", "S", "A">>)) }

SeqsAte(S, n) == UNION {[1..k -> S] : k \in 0..n}

\* the sets of columns the file may lack
Faltas == {{}, {"usd"}, {"ano", "cargo"}}

Tabela(linhas, falta) ==
    [bem_formado |-> TRUE,
     colunas |-> DOMAIN COLUNAS_ESPERADAS \ falta,
     linhas |-> [i \in DOMAIN linhas |->
                    [c \in DOMAIN COLUNAS_ESPERADAS \ falta |-> linhas[i][c]]]]

\* a file pd.read_csv cannot parse
Malformado == [bem_formado |-> FALSE, colunas |-> {}, linhas |-> <<>>]

Conteudos ==
    {Malformado} \cup
    {Tabela(l, f) : l \in SeqsAte(LinhasAceitas \cup LinhasRecusadas, MaxRows),
                    f \in Faltas}

\* long raw text: a head, a run of "a" that ends around the cut, a tail
Letras == {"a", " ", "<", ">"}

Enchimento(n) == [i \in 1..n |-> "a"]

TextosLongos ==
    {h \o Enchimento(n) \o t :
        h \in SeqsAte(Letras, MaxHead),
        n \in {0, LimiteTexto - 2, LimiteTexto - 1, LimiteTexto},
        t \in SeqsAte(Letras, MaxTail)}

\* one-row files with a long text in one of the text columns
ConteudosLongos ==
    {Tabela(<<[LinhaCrua(Inteiro(2023), Texto(<<"S", "E">>),
                         Texto(<<"F", "T">>), Texto(DataScientist),
                         Inteiro(3), Texto(<<"R">>), Texto(<<"B", "R", "A">>))
               EXCEPT ![col] = Texto(x)]>>, {}) :
        col \in colunas_texto, x \in TextosLongos}

\* --------------------------------------------------------------- actions
NaoTocados == [tocado |-> FALSE, valor |-> SemSelecao]

InicioDoPasso ==
    /\ df = Ausente
    /\ erro = SemErro
    /\ sel = SemSelecao
    /\ df_filtrado = Ausente
    /\ kpis = SemKpis
    /\ graficos = SemGraficos
    /\ tabela = Ausente

Init ==
    /\ csv_remoto \in Conteudos
    /\ cache = Ausente
    /\ fetches = 0
    /\ widgets = NaoTocados
    /\ pc = "carregar"
    /\ InicioDoPasso
    /\ entrada = Malformado
    /\ saida = [def |-> FALSE, ok |-> FALSE, linhas |-> <<>>]

\* app.py:76: df = carregar_dados(), behind st.cache_data
Carregar ==
    /\ pc = "carregar"
    /\ IF EmCache(cache)
       THEN /\ df' = cache
            /\ pc' = "sidebar"
            /\ UNCHANGED <<cache, fetches, erro>>
       ELSE /\ fetches < MaxFetches
            /\ fetches' = fetches + 1
            /\ \E rede_ok \in BOOLEAN :
                 LET r == carregar_dados(rede_ok, csv_remoto)
                 IN  IF r.ok
                     THEN /\ cache' = Presente(r.linhas)
                          /\ df' = Presente(r.linhas)
                          /\ pc' = "sidebar"
                          /\ erro' = r.erro
                     ELSE /\ erro' = r.erro
                          /\ pc' = "parado"
                          /\ UNCHANGED <<cache, df>>
    /\ UNCHANGED <<csv_remoto, widgets, sel, df_filtrado, kpis, graficos,
                   tabela, entrada, saida>>

\* app.py:83-99: the four multiselects return the session's value, or the
\* default when the user has not touched them
Sidebar ==
    /\ pc = "sidebar"
    /\ sel' = IF widgets.tocado THEN widgets.valor ELSE Padrao(df.linhas)
    /\ pc' = "filtrar"
    /\ UNCHANGED <<csv_remoto, cache, fetches, widgets, df, erro, df_filtrado,
                   kpis, graficos, tabela, entrada, saida>>

\* a plausible slip: the filter is written back over df (df = df[...])
FiltragemDestrutiva ==
    /\ pc = "filtrar"
    /\ df_filtrado' = Presente(Filtrar(df.linhas, sel))
    /\ df' = df_filtrado'
    /\ pc' = "kpis"
    /\ UNCHANGED <<csv_remoto, cache, fetches, widgets, erro, sel, kpis,
                   graficos, tabela, entrada, saida>>

\* app.py:104-109
Filtragem ==
    /\ pc = "filtrar"
    /\ df_filtrado' = Presente(Filtrar(df.linhas, sel))
    /\ pc' = "kpis"
    /\ UNCHANGED <<csv_remoto, cache, fetches, widgets, df, erro, sel, kpis,
                   graficos, tabela, entrada, saida>>

\* app.py:125-138
Kpis ==
    /\ pc = "kpis"
    /\ kpis' = calc_kpis(df_filtrado.linhas)
    /\ pc' = "graficos"
    /\ UNCHANGED <<csv_remoto, cache, fetches, widgets, df, erro, sel,
                   df_filtrado, graficos, tabela, entrada, saida>>

\* app.py:147-212
Graficos ==
    /\ pc = "graficos"
    /\ graficos' = [def |-> TRUE,
                    top_cargos |-> calc_top_cargos(df_filtrado.linhas),
                    histograma |-> calc_histograma(df_filtrado.linhas),
                    remoto |-> calc_remoto(df_filtrado.linhas),
                    media_pais |-> calc_media_pais(df_filtrado.linhas)]
    /\ pc' = "tabela"
    /\ UNCHANGED <<csv_remoto, cache, fetches, widgets, df, erro, sel,
                   df_filtrado, kpis, tabela, entrada, saida>>

\* app.py:217-218
TabelaDetalhada ==
    /\ pc = "tabela"
    /\ tabela' = Presente(head(df_filtrado.linhas, MAX_LINHAS_TABELA))
    /\ pc' = "fim"
    /\ UNCHANGED <<csv_remoto, cache, fetches, widgets, df, erro, sel,
                   df_filtrado, kpis, graficos, entrada, saida>>

NovoPasso ==
    /\ pc' = "carregar"
    /\ df' = Ausente
    /\ erro' = SemErro
    /\ sel' = SemSelecao
    /\ df_filtrado' = Ausente
    /\ kpis' = SemKpis
    /\ graficos' = SemGraficos
    /\ tabela' = Ausente
    /\ UNCHANGED <<csv_remoto, cache, fetches, entrada, saida>>

\* the user changes one multiselect, to any subset of its options: the
\* script runs again from the top
Interagir ==
    /\ pc = "fim"
    /\ \E campo \in {"ano", "senioridade", "contrato", "tamanho_empresa"} :
         \E escolha \in SUBSET Unicos(df.linhas, campo) :
            widgets' = [tocado |-> TRUE,
                        valor |-> [sel EXCEPT ![campo] = escolha]]
    /\ NovoPasso

\* the page is opened again: a new session, the script runs from the top
Reabrir ==
    /\ pc \in {"fim", "parado"}
    /\ widgets' = NaoTocados
    /\ NovoPasso

Next ==
    \/ Carregar
    \/ Sidebar
    \/ Filtragem
    \/ Kpis
    \/ Graficos
    \/ TabelaDetalhada
    \/ Interagir
    \/ Reabrir

Spec == Init /\ [][Next]_vars

\* ----------------------------------- the loader alone, on long raw text
InitCarga ==
    /\ csv_remoto = Malformado
    /\ cache = Ausente
    /\ fetches = 0
    /\ widgets = NaoTocados
    /\ pc = "carregar"
    /\ InicioDoPasso
    /\ entrada \in ConteudosLongos
    /\ saida = [def |-> FALSE, ok |-> FALSE, linhas |-> <<>>]

Carga ==
    /\ ~saida.def
    /\ LET r == carregar_dados(TRUE, entrada)
       IN  saida' = [def |-> TRUE, ok |-> r.ok, linhas |-> r.linhas]
    /\ UNCHANGED <<csv_remoto, cache, fetches, widgets, pc, df, erro, sel,
                   df_filtrado, kpis, graficos, tabela, entrada>>

NextCarga == Carga

SpecCarga == InitCarga /\ [][NextCarga]_vars

\* ================================================================ claims
Esperadas8 == {"ano", "senioridade", "contrato", "tamanho_empresa", "cargo",
               "usd", "remoto", "residencia_iso3"}

Zero == [nan |-> FALSE, num |-> 0, den |-> 1]

\* the rows of df that satisfy the four membership predicates of sel
IndicesAceitos ==
    {i \in DOMAIN df.linhas :
        /\ df.linhas[i].ano \in sel.ano
        /\ df.linhas[i].senioridade \in sel.senioridade
        /\ df.linhas[i].contrato \in sel.contrato
        /\ df.linhas[i].tamanho_empresa \in sel.tamanho_empresa}

\* C1: the filtered view is exactly the rows of the dataset, in dataset
\* order, whose ano, senioridade, contrato and tamanho_empresa are each a
\* member of the selected set of that field: none that fails a predicate is
\* in it, none that satisfies all four is left out.
C1_FiltroExato ==
    df_filtrado.def =>
        /\ Len(df_filtrado.linhas) = Cardinality(IndicesAceitos)
        /\ \A k \in DOMAIN df_filtrado.linhas :
             df_filtrado.linhas[k] =
                df.linhas[CHOOSE i \in IndicesAceitos :
                             Cardinality({j \in IndicesAceitos : j <= i}) = k]

\* a pass of a touched sidebar that keeps the second row and drops the first
C1_Witness ==
    /\ df_filtrado.def
    /\ widgets.tocado
    /\ Len(df.linhas) = 2
    /\ df_filtrado.linhas = <<df.linhas[2]>>
    /\ df.linhas[1] # df.linhas[2]

\* the content behind the URL has something the loader fails on
TemCausaDeFalha(c) ==
    \/ ~c.bem_formado
    \/ ~(Esperadas8 \subseteq c.colunas)
    \/ \E i \in DOMAIN c.linhas :
         \/ c.linhas[i].ano.k \in {"nan", "text"}
         \/ c.linhas[i].usd.k = "text"

\* C2: a failure inside carregar_dados shows an error and stops the pass: no
\* dataset is returned or cached, and no sidebar, filter, KPI, chart or
\* table step of that pass has run; and a dataset is never returned from a
\* content the loader fails on.
C2_FalhaParaOPasso ==
    /\ erro.etapa # "nenhuma" =>
         /\ pc = "parado"
         /\ erro.etapa \in {"fetch", "parse", "esquema", "coercao"}
         /\ ~df.def /\ ~cache.def
         /\ ~sel.def /\ ~df_filtrado.def /\ ~kpis.def /\ ~graficos.def
         /\ ~tabela.def
    /\ pc = "parado" => erro.etapa # "nenhuma"
    /\ TemCausaDeFalha(csv_remoto) =>
         /\ ~df.def /\ ~cache.def
         /\ pc \in {"carregar", "parado"}

\* a pass stopped by a refused coercion, after an earlier failed fetch
C2_Witness ==
    /\ pc = "parado"
    /\ erro.etapa = "coercao"
    /\ fetches = 2

\* C3: every value of the six text columns of a returned table is at most
\* 100 characters long, has no "<" and no ">", and has no whitespace at
\* either end, whatever the raw value.
C3_TextoSanitizado ==
    (saida.def /\ saida.ok) =>
        \A i \in DOMAIN saida.linhas :
          \A col \in {"senioridade", "contrato", "tamanho_empresa", "cargo",
                      "remoto", "residencia_iso3"} :
            LET x == saida.linhas[i][col]
            IN  /\ Len(x) <= 100
                /\ \A k \in DOMAIN x : x[k] \notin {"<", ">"}
                /\ x # <<>> => /\ x[1] \notin {" ", "\t"}
                               /\ x[Len(x)] \notin {" ", "\t"}

\* a raw cargo of more than 100 characters, with whitespace at the cut and
\* an angle bracket in front of it, has been loaded
C3_Witness ==
    /\ saida.def /\ saida.ok
    /\ LET raw == entrada.linhas[1].cargo.s
       IN  /\ Len(raw) > 100
           /\ raw[100] = " "
           /\ raw[1] = "<"
           /\ Len(saida.linhas[1].cargo) = 98

\* C4: a table that lacks expected columns never loads; the error is the
\* schema error and names exactly the expected columns that are absent, also
\* when the table holds cells the coercion would refuse.
C4_ColunasAusentes ==
    (csv_remoto.bem_formado /\ ~(Esperadas8 \subseteq csv_remoto.colunas)) =>
        /\ ~cache.def /\ ~df.def
        /\ pc = "parado" =>
             /\ erro.etapa \in {"fetch", "esquema"}
             /\ erro.etapa = "esquema" =>
                  erro.faltantes = Esperadas8 \ csv_remoto.colunas

\* the schema error for a table without ano and cargo whose usd holds text
C4_Witness ==
    /\ pc = "parado"
    /\ erro.etapa = "esquema"
    /\ erro.faltantes = {"ano", "cargo"}
    /\ \E i \in DOMAIN csv_remoto.linhas : csv_remoto.linhas[i].usd.k = "text"

\* C5: a load succeeds only when every raw value is a present value of the
\* declared type: no decimal cut down to an integer ano, no missing value
\* kept or replaced by a placeholder.
C5_CoercaoEstrita ==
    cache.def =>
        \A i \in DOMAIN csv_remoto.linhas :
            LET r == csv_remoto.linhas[i]
            IN  /\ r.ano.k = "int" \/ (r.ano.k = "float" /\ r.ano.v % 10 = 0)
                /\ r.usd.k \in {"int", "float"}
                /\ \A col \in Esperadas8 \ {"ano", "usd"} : r[col].k = "text"

\* C6: once the loader has succeeded, no later step fetches again, and every
\* later call returns the cached table.
C6_SemNovoFetch ==
    [][cache.def => /\ fetches' = fetches
                    /\ (pc = "carregar" => df' = cache)]_vars

\* a later pass, started by the user, has got its table from the cache
C6_Witness ==
    /\ cache.def
    /\ widgets.tocado
    /\ pc = "sidebar"
    /\ df = cache
    /\ fetches = 1

\* C7: on an empty filtered view the mean and the maximum salary are 0, the
\* count is 0, the most frequent role is the placeholder, and the top roles
\* table, the histogram, the work type counts and the per-country table are
\* absent; the pass runs to its end.
C7_VisaoVazia ==
    (df_filtrado.def /\ Len(df_filtrado.linhas) = 0) =>
        /\ kpis.def =>
             /\ kpis.salario_medio = Zero
             /\ kpis.salario_max = Zero
             /\ kpis.total = 0
             /\ kpis.cargo_freq = <<"-">>
        /\ graficos.def =>
             /\ ~graficos.top_cargos.def
             /\ ~graficos.histograma.def
             /\ ~graficos.remoto.def
             /\ ~graficos.media_pais.def
        /\ pc = "fim" => kpis.def /\ graficos.def /\ tabela.def

\* a pass over a dataset of two rows that the selection has emptied
C7_Witness ==
    /\ pc = "fim"
    /\ Len(df.linhas) = 2
    /\ df_filtrado.linhas = <<>>
    /\ kpis.total = 0

\* the roles of the filtered view
CargosDaVisao == {df_filtrado.linhas[i].cargo : i \in DOMAIN df_filtrado.linhas}

\* the mean of usd over the rows of one role of the filtered view
MediaDoCargo(c) ==
    mean(Coluna(SelectSeq(df_filtrado.linhas, LAMBDA r : r.cargo = c), "usd"))

\* C8: on a non-empty view top_cargos has min(10, distinct roles) rows, one
\* per role, each with the mean of usd of that role; no role left out has a
\* greater mean than one that is in; the rows ascend by mean.
C8_TopCargos ==
    (graficos.def /\ Len(df_filtrado.linhas) > 0) =>
        LET t == graficos.top_cargos.linhas
        IN  /\ graficos.top_cargos.def
            /\ Len(t) = Min(10, Cardinality(CargosDaVisao))
            /\ \A k \in DOMAIN t :
                 /\ t[k].chave \in CargosDaVisao
                 /\ ~t[k].usd.nan
                 /\ t[k].usd = MediaDoCargo(t[k].chave)
                 /\ \A j \in DOMAIN t : t[j].chave = t[k].chave => j = k
                 /\ \A c \in CargosDaVisao \ {t[j].chave : j \in DOMAIN t} :
                      ~NumMenor(t[k].usd, MediaDoCargo(c))
                 /\ k < Len(t) => ~NumMenor(t[k + 1].usd, t[k].usd)
                 /\ k < Len(t) => ~t[k + 1].usd.nan

\* C9: the loaded dataset is written once: no step of any pass changes the
\* cached table, and the table a pass works on is the cached one.
C9_DatasetIntacto ==
    [][/\ cache.def => cache' = cache
       /\ df'.def => df' = cache']_vars

\* a pass whose selection dropped a row has run to its end over the dataset
C9_Witness ==
    /\ pc = "fim"
    /\ widgets.tocado
    /\ df = cache
    /\ Len(cache.linhas) = 2
    /\ Len(tabela.linhas) = 1

\* C10: with untouched widgets the selection is, per field, the set of all
\* values of the field in the dataset, the filtered view is the whole
\* dataset and the count is its number of rows; and every selection is,
\* per field, a subset of the values of the field in the dataset.
C10_SelecaoPadrao ==
    /\ (sel.def /\ ~widgets.tocado) =>
         \A campo \in {"ano", "senioridade", "contrato", "tamanho_empresa"} :
            sel[campo] = {df.linhas[i][campo] : i \in DOMAIN df.linhas}
    /\ (df_filtrado.def /\ ~widgets.tocado) => df_filtrado.linhas = df.linhas
    /\ (kpis.def /\ ~widgets.tocado) => kpis.total = Len(df.linhas)
    /\ sel.def =>
         \A campo \in {"ano", "senioridade", "contrato", "tamanho_empresa"} :
            sel[campo] \subseteq {df.linhas[i][campo] : i \in DOMAIN df.linhas}

\* the first pass over a dataset of two different rows has counted both
C10_Witness ==
    /\ ~widgets.tocado
    /\ kpis.def
    /\ kpis.total = 2
    /\ df.linhas[1].ano # df.linhas[2].ano

====
